---- MODULE Spec2Model ----
(***************************************************************************)
(* Model of lorifier.py: a mutt display filter that parses one message,    *)
(* appends an X-Date header (Date in local time) and X-URI headers (lore   *)
(* links for the recipients that are archived mailing lists), and writes   *)
(* the message back.                                                       *)
(*                                                                         *)
(* A message is its ordered header list, as email.message.Message keeps    *)
(* it in _headers: a sequence of <<name, value>> pairs.  Header names,     *)
(* Message-ID values, recipient addresses and links are strings.  A value  *)
(* is a record tagged by "kind":                                           *)
(*   text   an unstructured value (Subject, Message-ID, a Date that is not *)
(*          a date, the generated link, the generated error text);         *)
(*   date   a date: "days" is its calendar day, counted from 1970-01-01,   *)
(*          "secs" its time of day in seconds, "sign" and "hhmm" its zone  *)
(*          token ("+", 130 for +0130; sign "" when the date carries no    *)
(*          numeric zone);                                                 *)
(*   addrs  an address list: the sequence of its mailboxes, each with a    *)
(*          display name and an address.                                   *)
(* Times are in seconds, as in the code.                                   *)
(***************************************************************************)
EXTENDS Integers, Sequences, FiniteSets, TLC

VARIABLES headers, input, prev, pc, output, raised, localtz, arg

vars == <<headers, input, prev, pc, output, raised, localtz, arg>>

\* Longest header list of an input message.
MaxHeaders == 3

(***************************************************************************)
(* Values                                                                  *)
(***************************************************************************)
Text(s) == [kind |-> "text", text |-> s]

DateV(d, t, s, z) == [kind |-> "date", days |-> d, secs |-> t, sign |-> s, hhmm |-> z]

Mailbox(n, a) == [name |-> n, addr |-> a]

Addrs(l) == [kind |-> "addrs", addrs |-> l]

None == [kind |-> "none"]

(***************************************************************************)
(* Strings                                                                 *)
(***************************************************************************)
UpperChars == <<"A", "B", "C", "D", "E", "F", "G", "H", "I", "J", "K", "L", "M",
                "N", "O", "P", "Q", "R", "S", "T", "U", "V", "W", "X", "Y", "Z">>

LowerChars == <<"a", "b", "c", "d", "e", "f", "g", "h", "i", "j", "k", "l", "m",
                "n", "o", "p", "q", "r", "s", "t", "u", "v", "w", "x", "y", "z">>

\* The lower-case letter of each upper-case letter.
LowerMap ==
    [c \in {UpperChars[i] : i \in 1..Len(UpperChars)} |->
        LowerChars[CHOOSE i \in 1..Len(UpperChars) : UpperChars[i] = c]]

LowerChar(c) == IF c \in DOMAIN LowerMap THEN LowerMap[c] ELSE c

RECURSIVE Lower(_)
\* str.lower()
Lower(s) ==
    IF Len(s) = 0 THEN ""
    ELSE LowerChar(SubSeq(s, 1, 1)) \o Lower(SubSeq(s, 2, Len(s)))

\* str.endswith(suffix)
EndsWith(s, suffix) ==
    /\ Len(s) >= Len(suffix)
    /\ SubSeq(s, Len(s) - Len(suffix) + 1, Len(s)) = suffix

\* s[1:-1]: the string without its first and its last character
Slice1M1(s) == SubSeq(s, 2, Len(s) - 1)

\* s[:-n] for 0 < n
DropLast(s, n) == SubSeq(s, 1, Len(s) - n)

\* Python truth value of a header value or of None
Truthy(v) ==
    CASE v.kind = "none" -> FALSE
      [] v.kind = "text" -> Len(v.text) > 0
      [] v.kind = "addrs" -> Len(v.addrs) > 0
      [] OTHER -> TRUE

(***************************************************************************)
(* email.message.Message: get, get_all, add_header                         *)
(***************************************************************************)
RECURSIVE GetFrom(_, _, _)
GetFrom(hs, name, i) ==
    IF i > Len(hs) THEN None
    ELSE IF Lower(hs[i][1]) = Lower(name) THEN hs[i][2]
    ELSE GetFrom(hs, name, i + 1)

\* message.get(name, None): the value of the first header of that name
Get(hs, name) == GetFrom(hs, name, 1)

RECURSIVE GetAllFrom(_, _, _)
GetAllFrom(hs, name, i) ==
    IF i > Len(hs) THEN <<>>
    ELSE IF Lower(hs[i][1]) = Lower(name)
         THEN <<hs[i][2]>> \o GetAllFrom(hs, name, i + 1)
         ELSE GetAllFrom(hs, name, i + 1)

\* message.get_all(name, []): the values of all headers of that name, in order
GetAll(hs, name) == GetAllFrom(hs, name, 1)

\* Variant: the new header is put in front of the list.
AddHeader_Front(hs, name, value) == <<<<name, value>>>> \o hs

\* message.add_header(name, value): the new header goes to the end
AddHeader(hs, name, value) == Append(hs, <<name, value>>)

(***************************************************************************)
(* email.utils: parsedate_tz, mktime_tz, formatdate, getaddresses          *)
(***************************************************************************)
\* The zone of a date in seconds, or None: a token that is no number gives
\* None, "-0000" gives None, and +hhmm gives (hh * 3600 + mm * 60).
TzOffset(v) ==
    IF v.sign = "" THEN None
    ELSE IF v.hhmm = 0 /\ v.sign = "-" THEN None
    ELSE [kind |-> "int",
          int |-> (IF v.sign = "-" THEN -1 ELSE 1)
                    * ((v.hhmm \div 100) * 3600 + (v.hhmm % 100) * 60)]

\* parsedate_tz(date): None when the text is no date, else the date's
\* fields and the zone, a missing zone being replaced by 0.
ParsedateTz(v) ==
    IF v.kind # "date" THEN None
    ELSE [kind |-> "tuple",
          days |-> v.days,
          secs |-> v.secs,
          tz |-> IF TzOffset(v) = None THEN 0 ELSE TzOffset(v).int]

\* mktime_tz(tz_tuple): the POSIX timestamp, or the exception raised:
\* subscripting None is a TypeError, and calendar.timegm refuses a year
\* after 9999 (10000-01-01 is day 2932897).
MktimeTz(t) ==
    IF t = None
    THEN [ok |-> FALSE, exc |-> "'NoneType' object is not subscriptable"]
    ELSE IF t.days >= 2932897
    THEN [ok |-> FALSE, exc |-> "year is out of range"]
    ELSE [ok |-> TRUE, epoch |-> t.days * 86400 + t.secs - t.tz]

\* The offset of the process's timezone at an instant.
LocalOffset(tz, epoch) == IF epoch >= tz.switch THEN tz.after ELSE tz.before

Abs(n) == IF n < 0 THEN -n ELSE n

\* formatdate(epoch, localtime=True): the instant read on the local clock,
\* with the local offset written as sign, hours and minutes.
Formatdate(epoch, tz) ==
    LET off == LocalOffset(tz, epoch)
    IN DateV((epoch + off) \div 86400, (epoch + off) % 86400,
             IF off < 0 THEN "-" ELSE "+",
             (Abs(off) \div 3600) * 100 + (Abs(off) % 3600) \div 60)

RECURSIVE Getaddresses(_)
\* [addr for _name, addr in getaddresses(values)]: the addresses of all the
\* mailboxes of all the values, in order
Getaddresses(values) ==
    IF values = <<>> THEN <<>>
    ELSE [i \in 1..Len(Head(values).addrs) |-> Head(values).addrs[i].addr]
            \o Getaddresses(Tail(values))

(***************************************************************************)
(* muttemail                                                               *)
(***************************************************************************)
LORE_FMT(list, id) == "https://lore.kernel.org/" \o list \o "/" \o id \o "/"

LORE_MLS == [a \in {"qemu-devel@nongnu.org"} |-> "qemu-devel"]

\* Variant: no try/except around the conversion, the exception escapes.
CreateXdateHeader_NoTry(hs, tz) ==
    LET date == Get(hs, "Date")
        epoch_time == MktimeTz(ParsedateTz(date))
    IN IF ~Truthy(date) THEN [headers |-> hs, raised |-> "none"]
       ELSE IF epoch_time.ok
       THEN [headers |-> AddHeader(hs, "X-Date", Formatdate(epoch_time.epoch, tz)),
             raised |-> "none"]
       ELSE [headers |-> hs, raised |-> epoch_time.exc]

\* Variant: formatdate(epoch_time) without localtime=True, which writes the
\* instant in UTC with the zone -0000.
CreateXdateHeader_Utc(hs, tz) ==
    LET date == Get(hs, "Date")
        epoch_time == MktimeTz(ParsedateTz(date))
    IN IF ~Truthy(date) THEN [headers |-> hs, raised |-> "none"]
       ELSE IF epoch_time.ok
       THEN [headers |-> AddHeader(hs, "X-Date",
                            DateV(epoch_time.epoch \div 86400, epoch_time.epoch % 86400, "-", 0)),
             raised |-> "none"]
       ELSE [headers |-> AddHeader(hs, "X-Date", Text("Error: " \o epoch_time.exc)),
             raised |-> "none"]

\* create_xdate_header: the header list afterwards and the exception that
\* escaped ("none": the method returned)
CreateXdateHeader(hs, tz) ==
    LET date == Get(hs, "Date")
        epoch_time == MktimeTz(ParsedateTz(date))
    IN IF ~Truthy(date) THEN [headers |-> hs, raised |-> "none"]
       ELSE IF epoch_time.ok
       THEN [headers |-> AddHeader(hs, "X-Date", Formatdate(epoch_time.epoch, tz)),
             raised |-> "none"]
       ELSE [headers |-> AddHeader(hs, "X-Date", Text("Error: " \o epoch_time.exc)),
             raised |-> "none"]

\* Variant: the table is not consulted.
MailingList_NoTable(recipient) ==
    IF EndsWith(recipient, "@vger.kernel.org")
    THEN Text(DropLast(recipient, Len("@vger.kernel.org")))
    ELSE None

\* lines 89-91: the archive list of one recipient, or None
MailingList(recipient) ==
    IF recipient \in DOMAIN LORE_MLS THEN Text(LORE_MLS[recipient])
    ELSE IF EndsWith(recipient, "@vger.kernel.org")
    THEN Text(DropLast(recipient, Len("@vger.kernel.org")))
    ELSE None

RECURSIVE XuriLoop_NotNone(_, _, _)
\* Variant: "if mailing_list is not None" in place of "if mailing_list".
XuriLoop_NotNone(hs, recipients, message_id) ==
    IF recipients = <<>> THEN hs
    ELSE LET mailing_list == MailingList(Head(recipients))
         IN XuriLoop_NotNone(IF mailing_list # None
                             THEN AddHeader(hs, "X-URI",
                                      Text(LORE_FMT(mailing_list.text, Slice1M1(message_id.text))))
                             ELSE hs,
                             Tail(recipients), message_id)

RECURSIVE XuriLoop(_, _, _)
\* lines 88-97: the loop over the recipients
XuriLoop(hs, recipients, message_id) ==
    IF recipients = <<>> THEN hs
    ELSE LET mailing_list == MailingList(Head(recipients))
         IN XuriLoop(IF Truthy(mailing_list)
                     THEN AddHeader(hs, "X-URI",
                              Text(LORE_FMT(mailing_list.text, Slice1M1(message_id.text))))
                     ELSE hs,
                     Tail(recipients), message_id)

\* Variant: the Message-ID is not checked before the loop; a missing one is
\* formatted as the text of None.
CreateXuriHeader_NoIdCheck(hs) ==
    LET message_id == Get(hs, "Message-ID")
        recipients_headers == GetAll(hs, "To") \o GetAll(hs, "Cc")
        recipients == Getaddresses(recipients_headers)
    IN [headers |-> XuriLoop(hs, recipients,
                             IF message_id = None THEN Text("None") ELSE message_id),
        raised |-> "none"]

\* create_xuri_header
CreateXuriHeader(hs) ==
    LET message_id == Get(hs, "Message-ID")
        recipients_headers == GetAll(hs, "To") \o GetAll(hs, "Cc")
        recipients == Getaddresses(recipients_headers)
    IN IF ~Truthy(message_id) THEN [headers |-> hs, raised |-> "none"]
       ELSE [headers |-> XuriLoop(hs, recipients, message_id), raised |-> "none"]

\* del headers[i]
DelAt(hs, i) == SubSeq(hs, 1, i - 1) \o SubSeq(hs, i + 1, Len(hs))

RECURSIVE RemoveLoop(_, _, _)
\* lines 66-69: i runs over reversed(range(len(headers)))
RemoveLoop(hs, header, i) ==
    IF i < 1 THEN hs
    ELSE RemoveLoop(IF Lower(hs[i][1]) = Lower(header) THEN DelAt(hs, i) ELSE hs,
                    header, i - 1)

\* Variant: the names are compared without lower().
RemoveHeaderOf_CaseSensitive(hs, header) == SelectSeq(hs, LAMBDA h : h[1] # header)

\* remove_header(header)
RemoveHeaderOf(hs, header) == RemoveLoop(hs, header, Len(hs))

\* as_bytes: the headers are written in the order of the list, one
\* "name: value" line each
AsBytes(hs) == hs

(***************************************************************************)
(* Inputs                                                                  *)
(***************************************************************************)
\* Timezones of the process: the offset before and from an instant on.
LocalZones ==
    { [before |-> 0, after |-> 3600, switch |-> 1711846800],
      [before |-> -12600, after |-> -9000, switch |-> 1710052200] }

HeaderPool ==
    { <<"Subject", Text("hi")>>,
      <<"Date", DateV(19905, 1800, "-", 530)>>,
      <<"date", DateV(19723, 43200, "-", 0)>>,
      <<"Date", DateV(19800, 86399, "", 0)>>,
      <<"Date", DateV(2932897, 0, "+", 0)>>,
      <<"Date", Text("garbage")>>,
      <<"Date", Text("")>>,
      <<"Message-ID", Text("<a@b>")>>,
      <<"MESSAGE-ID", Text("a@b")>>,
      <<"To", Addrs(<<Mailbox("Foo", "foo@vger.kernel.org"),
                      Mailbox("", "qemu-devel@nongnu.org"),
                      Mailbox("", "X@VGER.kernel.org")>>)>>,
      <<"To", Addrs(<<Mailbox("", "@vger.kernel.org"),
                      Mailbox("Bob", "bob@example.org")>>)>>,
      <<"cc", Addrs(<<Mailbox("", "linux-mm@vger.kernel.org")>>)>> }

\* The header lists of the input messages.
Messages == UNION { [1..n -> HeaderPool] : n \in 0..MaxHeaders }

\* The names remove_header is called with.
RemoveNames == {"Message-ID", "date", "CC", "X-Date"}

(***************************************************************************)
(* The program                                                             *)
(***************************************************************************)
\* pc is the last step done, raised the exception that step ended with
\* ("none": it returned), prev the header list before that step.
\* e = muttemail(sys.stdin.buffer.read())
Init ==
    /\ headers \in Messages
    /\ input = headers
    /\ prev = headers
    /\ pc = "parsed"
    /\ output = <<>>
    /\ raised = "none"
    /\ localtz \in LocalZones
    /\ arg = ""

\* e.create_xdate_header()
XDate ==
    /\ pc = "parsed"
    /\ LET r == CreateXdateHeader(headers, localtz)
       IN /\ headers' = r.headers
          /\ raised' = r.raised
          /\ pc' = "xdate"
    /\ prev' = headers
    /\ UNCHANGED <<input, output, localtz, arg>>

\* e.create_xuri_header()
XUri ==
    /\ pc = "xdate"
    /\ raised = "none"
    /\ LET r == CreateXuriHeader(headers)
       IN /\ headers' = r.headers
          /\ raised' = r.raised
          /\ pc' = "xuri"
    /\ prev' = headers
    /\ UNCHANGED <<input, output, localtz, arg>>

\* sys.stdout.buffer.write(e.as_bytes())
WriteOut ==
    /\ pc = "xuri"
    /\ raised = "none"
    /\ output' = AsBytes(headers)
    /\ pc' = "written"
    /\ UNCHANGED <<headers, input, prev, raised, localtz, arg>>

Next == XDate \/ XUri \/ WriteOut

Spec == Init /\ [][Next]_vars

\* A call of remove_header on a parsed message.
RemoveHeader ==
    /\ pc = "parsed"
    /\ \E name \in RemoveNames :
          /\ headers' = RemoveHeaderOf(headers, name)
          /\ arg' = name
    /\ prev' = headers
    /\ pc' = "removed"
    /\ UNCHANGED <<input, output, raised, localtz>>

NextRemove == RemoveHeader

SpecRemove == Init /\ [][NextRemove]_vars

TypeOK ==
    /\ pc \in {"parsed", "xdate", "xuri", "written", "removed"}
    /\ raised = "none"
    /\ localtz \in LocalZones
    /\ input \in Messages

(***************************************************************************)
(* Properties                                                              *)
(***************************************************************************)
\* The headers the last step appended, when prev is a prefix of headers.
Added == SubSeq(headers, Len(prev) + 1, Len(headers))

IsPrefix(a, b) == Len(a) <= Len(b) /\ SubSeq(b, 1, Len(a)) = a

StartsWith(s, p) == Len(s) >= Len(p) /\ SubSeq(s, 1, Len(p)) = p

\* The positions of the headers of a name, whatever its case.
Named(hs, name) ==
    LET lname == Lower(name)
    IN {i \in 1..Len(hs) : Lower(hs[i][1]) = lname}

Present(hs, name) == Named(hs, name) # {}

\* The value of the first header of a name that is present.
First(hs, name) ==
    LET at == Named(hs, name)
    IN hs[CHOOSE i \in at : \A j \in at : i <= j][2]

\* The recipient addresses, To headers first, then Cc headers.
Recipients(hs) == Getaddresses(GetAll(hs, "To") \o GetAll(hs, "Cc"))

\* The archive list of an address as the documentation gives it: the
\* configured table first, then the vger.kernel.org suffix; <<>> for none.
ListName(r) ==
    IF r = "qemu-devel@nongnu.org" THEN <<"qemu-devel">>
    ELSE IF Len(r) >= 16 /\ SubSeq(r, Len(r) - 15, Len(r)) = "@vger.kernel.org"
    THEN <<SubSeq(r, 1, Len(r) - 16)>>
    ELSE <<>>

Resolves(r) ==
    LET l == ListName(r)
    IN l # <<>> /\ l[1] # ""

\* The list names of the recipients that resolve, in order.
ResolvedNames(hs) ==
    LET rs == SelectSeq(Recipients(hs), Resolves)
    IN [i \in 1..Len(rs) |-> ListName(rs[i])[1]]

\* An identifier without a leading "<" and without a trailing ">".
StripAngle(s) ==
    LET a == IF StartsWith(s, "<") THEN SubSeq(s, 2, Len(s)) ELSE s
    IN IF EndsWith(a, ">") THEN SubSeq(a, 1, Len(a) - 1) ELSE a

\* create_xuri_header has run on a message with a usable Message-ID.
XuriRan ==
    /\ pc = "xuri"
    /\ LET at == Named(prev, "Message-ID")
       IN at # {} /\ Truthy(prev[CHOOSE i \in at : \A j \in at : i <= j][2])

\* C1: create_xuri_header appends at most one X-URI header; when some
\* recipient resolves to an archive list it appends exactly one, the link of
\* the first resolving recipient in To-then-Cc order.
C1_FirstMatchWins ==
    XuriRan =>
        LET names == ResolvedNames(prev)
        IN /\ IsPrefix(prev, headers)
           /\ Len(Added) = IF names = <<>> THEN 0 ELSE 1
           /\ \A i \in 1..Len(Added) :
                 /\ Added[i][1] = "X-URI"
                 /\ StartsWith(Added[i][2].text,
                               "https://lore.kernel.org/" \o names[1] \o "/")

\* C2: once the pipeline has written the message, the output has no
\* Message-ID header although the input had one.
C2_MessageIdRemoved ==
    (pc = "written" /\ Present(input, "Message-ID")) => ~Present(output, "Message-ID")

\* C3: every link is "https://lore.kernel.org/" + list + "/" + token + "/",
\* the token being the Message-ID with only a leading "<" and a trailing ">"
\* removed (an identifier without them is used unchanged).
C3_TokenStripsOnlyBrackets ==
    XuriRan =>
        LET names == ResolvedNames(prev)
            token == StripAngle(First(prev, "Message-ID").text)
        IN /\ Len(Added) = Len(names)
           /\ \A i \in 1..Len(Added) :
                 Added[i] = <<"X-URI",
                              Text("https://lore.kernel.org/" \o names[i] \o "/"
                                   \o token \o "/")>>

\* A Date value that gives no instant: a text that is no date, or a date
\* whose year the calendar does not have.
NotADate(d) == d.kind = "text" \/ (d.kind = "date" /\ d.days >= 2932897)

\* The last step appended one X-Date header holding an error text.
AppendedErrorXDate ==
    /\ Len(headers) = Len(prev) + 1
    /\ IsPrefix(prev, headers)
    /\ Added[1][1] = "X-Date"
    /\ Added[1][2].kind = "text"
    /\ StartsWith(Added[1][2].text, "Error: ")

\* C4 as stated: whenever the Date header is present and is no date, an empty
\* value included, create_xdate_header returns normally having appended
\* exactly one X-Date header that holds an error text.
C4_DegradedAlways ==
    (pc = "xdate" /\ Present(prev, "Date") /\ NotADate(First(prev, "Date")))
        => (raised = "none" /\ AppendedErrorXDate)

\* C4 amended: whenever the Date header is present with a non-empty value
\* that is no date, create_xdate_header returns normally having appended
\* exactly one X-Date header that holds an error text; a Date header with an
\* empty value is treated as absent, and nothing is appended.
C4_DegradedNonEmpty ==
    (pc = "xdate" /\ Present(prev, "Date") /\ NotADate(First(prev, "Date")))
        => /\ raised = "none"
           /\ IF First(prev, "Date") = Text("") THEN headers = prev
              ELSE AppendedErrorXDate

C4_Witness ==
    /\ pc = "xdate"
    /\ Present(prev, "Date")
    /\ First(prev, "Date") = Text("garbage")
    /\ AppendedErrorXDate

\* C5: after the generators have run, the input header list is a prefix of
\* the header list (and of the output), and every header after it is an
\* X-Date or an X-URI header.
C5_InputIsPrefix ==
    (pc \in {"xdate", "xuri", "written"}) =>
        /\ IsPrefix(input, headers)
        /\ \A i \in Len(input) + 1..Len(headers) : headers[i][1] \in {"X-Date", "X-URI"}
        /\ pc = "written" => IsPrefix(input, output)

C5_Witness ==
    /\ pc = "written"
    /\ Len(input) = 3
    /\ Len(output) >= Len(input) + 3
    /\ output[Len(input) + 1][1] = "X-Date"
    /\ output[Len(output)][1] = "X-URI"

\* C6: a recipient in the configured table resolves to the table's name, else
\* a recipient ending in "@vger.kernel.org" resolves to the address without
\* that suffix, else it resolves to nothing; the links appended are those of
\* the resolving recipients, in order, and when none resolves nothing is
\* appended and nothing is raised.
C6_Resolution ==
    XuriRan =>
        LET names == ResolvedNames(prev)
        IN /\ raised = "none"
           /\ IsPrefix(prev, headers)
           /\ Len(Added) = Len(names)
           /\ \A i \in 1..Len(Added) :
                 StartsWith(Added[i][2].text,
                            "https://lore.kernel.org/" \o names[i] \o "/")

C6_Witness ==
    /\ XuriRan
    /\ Recipients(prev) = <<"foo@vger.kernel.org", "qemu-devel@nongnu.org", "X@VGER.kernel.org">>
    /\ Len(Added) = 2
    /\ StartsWith(Added[1][2].text, "https://lore.kernel.org/foo/")
    /\ StartsWith(Added[2][2].text, "https://lore.kernel.org/qemu-devel/")

\* C7: create_xdate_header changes nothing and raises nothing when there is
\* no Date header; create_xuri_header changes nothing and raises nothing when
\* there is no Message-ID header or no To and no Cc header.
C7_NoOpWhenAbsent ==
    /\ (pc = "xdate" /\ ~Present(prev, "Date")) => (headers = prev /\ raised = "none")
    /\ (pc = "xuri" /\ (~Present(prev, "Message-ID")
                          \/ (~Present(prev, "To") /\ ~Present(prev, "Cc"))))
          => (headers = prev /\ raised = "none")

C7_Witness ==
    /\ pc = "xuri"
    /\ ~Present(prev, "Message-ID")
    /\ ~Present(prev, "Date")
    /\ ResolvedNames(prev) # <<>>
    /\ headers = input

\* C8: remove_header(name) leaves exactly the headers whose name differs from
\* name when case is ignored, in their order.
C8_RemoveIsFilter ==
    pc = "removed" =>
        headers = SelectSeq(prev, LAMBDA h : Lower(h[1]) # Lower(arg))

C8_Witness ==
    /\ pc = "removed"
    /\ Len(prev) = 3
    /\ prev[1][1] = "Message-ID"
    /\ prev[2][1] = "MESSAGE-ID"
    /\ prev[3][1] = "Subject"
    /\ arg = "Message-ID"
    /\ headers = <<prev[3]>>

\* The zone of a date in seconds as RFC 5322 reads it (-0000 and a missing
\* zone count as UTC).
ZoneSeconds(v) ==
    IF v.sign = "" THEN 0
    ELSE (IF v.sign = "-" THEN -1 ELSE 1) * ((v.hhmm \div 100) * 3600 + (v.hhmm % 100) * 60)

\* The instant a date denotes: its wall-clock reading minus its offset.
Instant(v) == v.days * 86400 + v.secs - ZoneSeconds(v)

\* C9: for a Date that gives an instant, create_xdate_header appends an
\* X-Date header that denotes the same instant and carries the local offset
\* at that instant.
C9_SameInstant ==
    (pc = "xdate" /\ Present(prev, "Date") /\ First(prev, "Date").kind = "date"
       /\ ~NotADate(First(prev, "Date")))
        => /\ Len(headers) = Len(prev) + 1
           /\ IsPrefix(prev, headers)
           /\ Added[1][1] = "X-Date"
           /\ Added[1][2].kind = "date"
           /\ Instant(Added[1][2]) = Instant(First(prev, "Date"))
           /\ ZoneSeconds(Added[1][2]) = LocalOffset(localtz, Instant(First(prev, "Date")))

C9_Witness ==
    /\ pc = "xdate"
    /\ Present(prev, "Date")
    /\ First(prev, "Date") = DateV(19905, 1800, "-", 530)
    /\ localtz.after = 3600
    /\ Len(headers) = Len(prev) + 1
    /\ Added[1] = <<"X-Date", DateV(19905, 25200, "+", 100)>>

\* C10: no link has an empty list-name segment: a recipient whose list name is
\* empty gets no link, and the recipients after it are still handled.
C10_NonEmptyListName ==
    XuriRan =>
        /\ \A i \in 1..Len(Added) :
              ~StartsWith(Added[i][2].text, "https://lore.kernel.org//")
        /\ LET rs == Recipients(prev)
           IN Len(Added) = Cardinality({i \in 1..Len(rs) : Resolves(rs[i])})

C10_Witness ==
    /\ XuriRan
    /\ Recipients(prev) = <<"@vger.kernel.org", "bob@example.org", "linux-mm@vger.kernel.org">>
    /\ Len(Added) = 1
    /\ StartsWith(Added[1][2].text, "https://lore.kernel.org/linux-mm/")

====
